---- MODULE Spec2Model ----
(***************************************************************************)
(* Model of the jewelry configurators of lxrogers/jewelryproto:            *)
(*   ring  - src/src/ring-configurator.js (and its two later revisions in  *)
(*           src/unnamed/part_000, lines 1-862 and 863-2159, whose         *)
(*           initializeApp / instantPreviewUpdate / updateRing are the     *)
(*           same code),                                                   *)
(*   sun   - src/src/sun-ring.js,                                          *)
(*   sun2  - src/src/sun-ring2.js,                                         *)
(*   demo  - the subdivision comparison demo, part_000 lines 2160-2575.    *)
(*                                                                         *)
(* Each page runs in one browser event loop: a handler runs to completion  *)
(* (its awaits of already-settled promises are microtasks, which no event  *)
(* or timer can interleave), so one action models one whole handler.       *)
(*                                                                         *)
(* Units: lengths in hundredths of a millimetre, angles in degrees, time   *)
(* in ticks of 100 ms.  A fillet radius in the kernel log is written       *)
(* doubled (r2 = 2 * radius) so that FILLET_RADIUS * 0.5 stays an integer. *)
(***************************************************************************)
EXTENDS Integers, Sequences, FiniteSets, TLC

VARIABLES
    app,                  \* which page this behaviour is about
    events,               \* user events dispatched so far (bounded)
    isInitialized,        \* let isInitialized
    ocSet,                \* setOC(OC) has run: the kernel is usable
    initPhase,            \* "loading" | "ready" | "failed": initializeApp / init
    kernelLog,            \* kernel operations issued by the latest handler
    kernelMisuse,         \* history: a kernel operation ran before setOC
    lastRun,              \* history: what the latest handler did
    faults,               \* handler runs so far in which the kernel threw (bounded)
    sliders,              \* ring: the DOM values of the four geometry sliders
    timers,               \* pending setTimeout timers: records [id, remaining ticks]
    nextTimerId,          \* the id the next setTimeout returns
    qualityUpdateTimeout, \* let qualityUpdateTimeout (NoTimer or a timer id)
    ringMesh,             \* let ringMesh (NULL or a mesh)
    helperMesh,           \* ring: let helperMesh (NULL or a mesh)
    isPreviewMode,        \* ring: let isPreviewMode
    loadingHidden,        \* #loading has the class "hidden"
    sinceInput,           \* history: ticks since the latest handled slider input (capped)
    hqSinceInput,         \* history: high-quality timer runs since that input
    hqRuns,               \* history: high-quality timer runs in all
    dims,                 \* sun: RING_WIDTH, HEIGHT, ... FILLET_RADIUS
    moonMesh,             \* sun: let moonMesh (NULL or a mesh)
    scene,                \* sun: the jewelry meshes in the scene
    isAnimating,          \* sun: let isAnimating
    animationStartAngle,  \* sun: let animationStartAngle
    animationTargetAngle, \* sun: let animationTargetAngle
    animationDegrees,     \* sun2: let animationDegrees
    localStorage,         \* sun: the text stored under the presets key, or NoItem
    savedDims,            \* history: the dimension variables at the latest save of a name
    lastEvent,            \* history: the step taken last and its input
    meshQuality,          \* ring revisions: let meshQuality
    demoParams,           \* demo: let params
    wireframeEnabled,     \* demo: let wireframeEnabled
    currentMeshes,        \* demo: let currentMeshes
    geometries            \* demo: originalGeometry, loopGeometry, catmullGeometry

runVars == <<kernelLog, kernelMisuse, faults, lastRun, loadingHidden>>
ringDisplayVars == <<ringMesh, helperMesh, isPreviewMode>>
timerVars == <<timers, nextTimerId, qualityUpdateTimeout, sinceInput, hqSinceInput, hqRuns>>
kernelVars == <<isInitialized, ocSet, initPhase>>
ringVars == <<ringDisplayVars, timerVars, sliders>>
animationVars == <<isAnimating, animationStartAngle, animationTargetAngle, animationDegrees>>
sunMeshVars == <<ringMesh, moonMesh, scene>>
sunVars == <<dims, moonMesh, scene, animationVars, localStorage, savedDims>>
demoVars == <<demoParams, wireframeEnabled, currentMeshes, geometries>>
vars == <<app, events, lastEvent, kernelVars, runVars, ringVars, meshQuality, sunVars, demoVars>>

(* JavaScript's null, where a mesh is expected. *)
NULL == [null |-> TRUE]

(* let qualityUpdateTimeout = null; timer ids are positive. *)
NoTimer == 0

(* No slider input has been handled yet. *)
Never == 0 - 1

(* Bounds of the model. *)
MaxEvents == 3
MaxFaults == 1

(* setTimeout(..., 300) in ticks of 100 ms. *)
QualityDelayTicks == 3

(* The step taken last: the action and the input the user chose. *)
Event(action, input) == [action |-> action, input |-> input]

NoRun == [kind |-> "none", error |-> "none", alerted |-> FALSE, shownLoading |-> FALSE]

(***************************************************************************)
(* The CAD kernel is external: any of its operations may throw.  A fault   *)
(* names the operations that throw during one handler run.                 *)
(***************************************************************************)
RingFaults == {"none", "makeCylinder", "cut", "fillet", "filletChamfer", "mesh"}

(* The faults a handler run may meet: none once MaxFaults runs have met one. *)
RingFaultChoices == IF faults < MaxFaults THEN RingFaults ELSE {"none"}

(***************************************************************************)
(* ring-configurator.js (app = "ring") and its two revisions in part_000,   *)
(* which add the mesh quality slider (app = "ring2")                       *)
(***************************************************************************)
RingApps == {"ring", "ring2"}

OuterValues == {2000, 2100}
InnerValues == {1800, 1900}
HeightValues == {200, 400}
FilletValues == {10, 50, 100}
(* Keys of qualityPresets. *)
MeshQualityValues == {4, 6}

SliderRange(id) ==
    CASE id = "outerDiameter" -> OuterValues
      [] id = "innerDiameter" -> InnerValues
      [] id = "height" -> HeightValues
      [] id = "filletRadius" -> FilletValues
      [] id = "meshQuality" -> MeshQualityValues

GeometrySliders == {"outerDiameter", "innerDiameter", "height", "filletRadius"}

(* The sliders whose 'input' handler calls instantPreviewUpdate. *)
RingSliders(a) == IF a = "ring2" THEN GeometrySliders \cup {"meshQuality"}
                  ELSE GeometrySliders

(* getCurrentParams(): parseFloat of the four sliders' DOM values. *)
getCurrentParams(dom) ==
    [outerDiameter |-> dom.outerDiameter, innerDiameter |-> dom.innerDiameter,
     height |-> dom.height, filletRadius |-> dom.filletRadius]

(* createPreviewRing / createHighQualityRing: the parameter validation.
   innerRadius >= outerRadius - 0.5, and filletRadius > (outerRadius - innerRadius) / 2,
   both multiplied out to diameters. *)
InnerTooLarge(params) == params.innerDiameter >= params.outerDiameter - 100

FilletTooLarge(params) ==
    4 * params.filletRadius > params.outerDiameter - params.innerDiameter

(* The result of building a ring: the kernel operations issued (log), the
   error thrown ("none" if the build returned a shape) and the edge treatment
   of the returned shape. *)
createPreviewRing(params, fault) ==
    IF InnerTooLarge(params)
    THEN [log |-> <<>>, error |-> "innerTooLarge", edges |-> "none"]
    ELSE IF fault = "makeCylinder"
    THEN [log |-> <<"makeCylinder">>, error |-> "kernel", edges |-> "none"]
    ELSE IF fault = "cut"
    THEN [log |-> <<"makeCylinder", "makeCylinder", "cut">>, error |-> "kernel",
          edges |-> "none"]
    ELSE [log |-> <<"makeCylinder", "makeCylinder", "cut">>, error |-> "none",
          edges |-> "plain"]

(* A high-quality build that lets the chamfer's error escape. *)
createHighQualityRingChamferThrows(params, fault) ==
    IF InnerTooLarge(params)
    THEN [log |-> <<>>, error |-> "innerTooLarge", edges |-> "none"]
    ELSE IF FilletTooLarge(params)
    THEN [log |-> <<>>, error |-> "filletTooLarge", edges |-> "none"]
    ELSE IF fault = "makeCylinder"
    THEN [log |-> <<"makeCylinder">>, error |-> "kernel", edges |-> "none"]
    ELSE IF fault = "cut"
    THEN [log |-> <<"makeCylinder", "makeCylinder", "cut">>, error |-> "kernel",
          edges |-> "none"]
    ELSE LET base == <<"makeCylinder", "makeCylinder", "cut">>
         IN  IF params.filletRadius > 10
             THEN IF fault = "fillet"
                  THEN [log |-> base \o <<"fillet", "chamfer">>, error |-> "none",
                        edges |-> "chamfer"]
                  ELSE IF fault = "filletChamfer"
                  THEN [log |-> base \o <<"fillet", "chamfer">>, error |-> "kernel",
                        edges |-> "none"]
                  ELSE [log |-> base \o <<"fillet">>, error |-> "none",
                        edges |-> "fillet"]
             ELSE [log |-> base, error |-> "none", edges |-> "plain"]

createHighQualityRing(params, fault) ==
    IF InnerTooLarge(params)
    THEN [log |-> <<>>, error |-> "innerTooLarge", edges |-> "none"]
    ELSE IF FilletTooLarge(params)
    THEN [log |-> <<>>, error |-> "filletTooLarge", edges |-> "none"]
    ELSE IF fault = "makeCylinder"
    THEN [log |-> <<"makeCylinder">>, error |-> "kernel", edges |-> "none"]
    ELSE IF fault = "cut"
    THEN [log |-> <<"makeCylinder", "makeCylinder", "cut">>, error |-> "kernel",
          edges |-> "none"]
    ELSE LET base == <<"makeCylinder", "makeCylinder", "cut">>
         IN  IF params.filletRadius > 10
             THEN IF fault = "fillet"
                  THEN [log |-> base \o <<"fillet", "chamfer">>, error |-> "none",
                        edges |-> "chamfer"]
                  ELSE IF fault = "filletChamfer"
                  THEN [log |-> base \o <<"fillet", "chamfer">>, error |-> "none",
                        edges |-> "plain"]
                  ELSE [log |-> base \o <<"fillet">>, error |-> "none",
                        edges |-> "fillet"]
             ELSE [log |-> base, error |-> "none", edges |-> "plain"]

(* The geometry a successful updateRing hands to the renderer: the shape
   meshed with the preview tolerances or with those of the quality preset. *)
RingGeometry(params, usePreview, edges, quality) ==
    [outerDiameter |-> params.outerDiameter, innerDiameter |-> params.innerDiameter,
     height |-> params.height, edges |-> edges,
     preview |-> usePreview, quality |-> IF usePreview THEN 0 ELSE quality]

(* An updateRing that never hides the helper mesh. *)
updateRingHelperShown(params, usePreview, fault) ==
    LET built == IF usePreview THEN createPreviewRing(params, fault)
                 ELSE createHighQualityRing(params, fault)
        meshThrows == built.error = "none" /\ fault = "mesh"
        log == IF built.error = "none" THEN built.log \o <<"mesh">> ELSE built.log
        error == IF meshThrows THEN "kernel" ELSE built.error
        geometry == RingGeometry(params, usePreview, built.edges, meshQuality')
    IN  /\ kernelLog' = log
        /\ kernelMisuse' = (kernelMisuse \/ (log # <<>> /\ ~ocSet'))
        /\ faults' = faults + (IF fault = "none" THEN 0 ELSE 1)
        /\ lastRun' = [kind |-> IF usePreview THEN "preview" ELSE "highQuality",
                       error |-> error, alerted |-> (error # "none"),
                       shownLoading |-> ~usePreview]
        /\ loadingHidden' = IF usePreview THEN loadingHidden ELSE TRUE
        /\ IF error = "none"
           THEN /\ ringMesh' = [geometry |-> geometry,
                                material |-> IF usePreview THEN "wireframe" ELSE "gold",
                                castShadow |-> ~usePreview, receiveShadow |-> ~usePreview]
                /\ helperMesh' = [geometry |-> geometry, visible |-> TRUE]
                /\ isPreviewMode' = usePreview
           ELSE UNCHANGED <<ringMesh, helperMesh, isPreviewMode>>

(* An updateRing that switches the display mode before it builds. *)
updateRingSwitchFirst(params, usePreview, fault) ==
    LET built == IF usePreview THEN createPreviewRing(params, fault)
                 ELSE createHighQualityRing(params, fault)
        meshThrows == built.error = "none" /\ fault = "mesh"
        log == IF built.error = "none" THEN built.log \o <<"mesh">> ELSE built.log
        error == IF meshThrows THEN "kernel" ELSE built.error
        geometry == RingGeometry(params, usePreview, built.edges, meshQuality')
    IN  /\ kernelLog' = log
        /\ kernelMisuse' = (kernelMisuse \/ (log # <<>> /\ ~ocSet'))
        /\ faults' = faults + (IF fault = "none" THEN 0 ELSE 1)
        /\ lastRun' = [kind |-> IF usePreview THEN "preview" ELSE "highQuality",
                       error |-> error, alerted |-> (error # "none"),
                       shownLoading |-> ~usePreview]
        /\ loadingHidden' = IF usePreview THEN loadingHidden ELSE TRUE
        /\ isPreviewMode' = usePreview
        /\ IF error = "none"
           THEN /\ ringMesh' = [geometry |-> geometry,
                                material |-> IF usePreview THEN "wireframe" ELSE "gold",
                                castShadow |-> ~usePreview, receiveShadow |-> ~usePreview]
                /\ helperMesh' = [geometry |-> geometry, visible |-> usePreview]
           ELSE UNCHANGED <<ringMesh, helperMesh>>

(* updateRing(params, usePreview): the whole function, try / catch / finally. *)
updateRing(params, usePreview, fault) ==
    LET built == IF usePreview THEN createPreviewRing(params, fault)
                 ELSE createHighQualityRing(params, fault)
        meshThrows == built.error = "none" /\ fault = "mesh"
        log == IF built.error = "none" THEN built.log \o <<"mesh">> ELSE built.log
        error == IF meshThrows THEN "kernel" ELSE built.error
        geometry == RingGeometry(params, usePreview, built.edges, meshQuality')
    IN  /\ kernelLog' = log
        /\ kernelMisuse' = (kernelMisuse \/ (log # <<>> /\ ~ocSet'))
        /\ faults' = faults + (IF fault = "none" THEN 0 ELSE 1)
        /\ lastRun' = [kind |-> IF usePreview THEN "preview" ELSE "highQuality",
                       error |-> error, alerted |-> (error # "none"),
                       shownLoading |-> ~usePreview]
        /\ loadingHidden' = IF usePreview THEN loadingHidden ELSE TRUE
        /\ IF error = "none"
           THEN /\ ringMesh' = [geometry |-> geometry,
                                material |-> IF usePreview THEN "wireframe" ELSE "gold",
                                castShadow |-> ~usePreview,
                                receiveShadow |-> ~usePreview]
                /\ helperMesh' = [geometry |-> geometry, visible |-> usePreview]
                /\ isPreviewMode' = usePreview
           ELSE UNCHANGED <<ringMesh, helperMesh, isPreviewMode>>

(* initializeApp, resumed when the kernel load settles: initializeReplicad's
   continuation (setOC, isInitialized = true), then initThreeJS,
   setupSliderListeners and the initial high-quality updateRing. *)
RingKernelLoaded ==
    /\ lastEvent' = Event("RingKernelLoaded", <<>>)
    /\ UNCHANGED <<sunVars, demoVars>>
    /\ app \in RingApps
    /\ initPhase = "loading"
    /\ isInitialized' = TRUE
    /\ ocSet' = TRUE
    /\ initPhase' = "ready"
    /\ UNCHANGED meshQuality
    /\ \E fault \in RingFaultChoices : updateRing(getCurrentParams(sliders), FALSE, fault)
    /\ UNCHANGED <<app, events, timerVars, sliders>>

(* The same, when opencascade() rejects: initializeReplicad's catch logs the
   error, and initializeApp goes on to attach the listeners. *)
RingKernelLoadFailed ==
    /\ lastEvent' = Event("RingKernelLoadFailed", <<>>)
    /\ UNCHANGED <<sunVars, demoVars>>
    /\ app \in RingApps
    /\ initPhase = "loading"
    /\ initPhase' = "failed"
    /\ lastRun' = [kind |-> "initializeReplicad", error |-> "kernel",
                   alerted |-> FALSE, shownLoading |-> FALSE]
    /\ kernelLog' = <<>>
    /\ UNCHANGED <<app, events, isInitialized, ocSet, kernelMisuse, faults, loadingHidden,
                   ringDisplayVars, timerVars, sliders, meshQuality>>

(* A handler that forgets to cancel the pending timer. *)
clearTimeoutForgotten(pending, id) == pending

(* if (qualityUpdateTimeout) clearTimeout(qualityUpdateTimeout): a pending
   timer with that id is cancelled; null (or a timer that has run) cancels
   nothing. *)
clearTimeout(pending, id) == {t \in pending : t.id # id}

(* instantPreviewUpdate(), called with the DOM as the input event left it. *)
instantPreviewUpdate(dom, fault) ==
    IF isInitialized
    THEN /\ timers' = clearTimeout(timers, qualityUpdateTimeout)
                        \cup {[id |-> nextTimerId, remaining |-> QualityDelayTicks]}
         /\ qualityUpdateTimeout' = nextTimerId
         /\ nextTimerId' = nextTimerId + 1
         /\ updateRing(getCurrentParams(dom), TRUE, fault)
         /\ sinceInput' = 0
         /\ hqSinceInput' = 0
         /\ UNCHANGED hqRuns
    ELSE /\ kernelLog' = <<>>
         /\ lastRun' = NoRun
         /\ UNCHANGED <<kernelMisuse, faults, loadingHidden, ringDisplayVars, timerVars>>

(* An 'input' event of a geometry slider or of the mesh quality slider.
   Before setupSliderListeners has run the DOM value changes and no handler
   runs. *)
RingSliderInput ==
    /\ UNCHANGED <<sunVars, demoVars>>
    /\ app \in RingApps
    /\ events < MaxEvents
    /\ events' = events + 1
    /\ UNCHANGED <<app, kernelVars>>
    /\ \E id \in RingSliders(app) : \E v \in SliderRange(id) :
        /\ lastEvent' = Event("RingSliderInput", id)
        /\ sliders' = [sliders EXCEPT ![id] = v]
        /\ IF initPhase = "loading"
           THEN UNCHANGED <<runVars, ringDisplayVars, timerVars, meshQuality>>
           ELSE /\ meshQuality' = IF id = "meshQuality" THEN v ELSE meshQuality
                /\ \E fault \in RingFaultChoices : instantPreviewUpdate(sliders', fault)

(* The callback of the timer set by instantPreviewUpdate. *)
RingQualityTimer ==
    /\ lastEvent' = Event("RingQualityTimer", <<>>)
    /\ UNCHANGED <<sunVars, demoVars>>
    /\ app \in RingApps
    /\ UNCHANGED <<app, events, kernelVars, sliders, meshQuality>>
    /\ \E t \in timers :
        /\ t.remaining = 0
        /\ timers' = timers \ {t}
        /\ UNCHANGED <<nextTimerId, qualityUpdateTimeout, sinceInput>>
        /\ IF isInitialized
           THEN /\ hqSinceInput' = hqSinceInput + 1
                /\ hqRuns' = hqRuns + 1
                /\ \E fault \in RingFaultChoices :
                       updateRing(getCurrentParams(sliders), FALSE, fault)
           ELSE /\ kernelLog' = <<>>
                /\ lastRun' = NoRun
                /\ UNCHANGED <<kernelMisuse, faults, loadingHidden, ringDisplayVars,
                               hqSinceInput, hqRuns>>

(* 100 ms pass.  A timer that is due runs before the clock moves on. *)
Tick ==
    /\ lastEvent' = Event("Tick", <<>>)
    /\ UNCHANGED <<sunVars, demoVars>>
    /\ \A t \in timers : t.remaining > 0
    /\ timers # {} \/ (sinceInput # Never /\ sinceInput <= QualityDelayTicks)
    /\ timers' = {[t EXCEPT !.remaining = @ - 1] : t \in timers}
    /\ sinceInput' = IF sinceInput = Never \/ sinceInput > QualityDelayTicks
                     THEN sinceInput ELSE sinceInput + 1
    /\ UNCHANGED <<app, events, kernelVars, runVars, ringDisplayVars, sliders, meshQuality,
                   nextTimerId, qualityUpdateTimeout, hqSinceInput, hqRuns>>

(***************************************************************************)
(* sun-ring.js (app = "sun") and sun-ring2.js (app = "sun2")               *)
(***************************************************************************)
ringOnlyVars == <<helperMesh, isPreviewMode, timerVars, sliders, meshQuality, demoVars>>

(* The values the dimension sliders deliver. *)
RingWidthValues == {150, 220}
SunHeightValues == {100, 200}
SunDiameterValues == {750, 1200}
SunThicknessValues == {140, 200}
MoonDiameterValues == {400, 800}
MoonAngleValues == {0, 360}
MoonHeightValues == {50, 100}
FilletRadiusValues == {0, 1, 30}
AnimationDegreesValues == {90, 360}

(* The slider table of setupSliders: variable, values, updateType. *)
SunSliders ==
    {[variable |-> "RING_WIDTH", values |-> RingWidthValues, updateType |-> "ring"],
     [variable |-> "HEIGHT", values |-> SunHeightValues, updateType |-> "both"],
     [variable |-> "SUN_DIAMETER", values |-> SunDiameterValues, updateType |-> "ring"],
     [variable |-> "SUN_THICKNESS", values |-> SunThicknessValues, updateType |-> "ring"],
     [variable |-> "MOON_DIAMETER", values |-> MoonDiameterValues, updateType |-> "moon"],
     [variable |-> "MOON_ANGLE", values |-> MoonAngleValues, updateType |-> "transform"],
     [variable |-> "FILLET_RADIUS", values |-> FilletRadiusValues, updateType |-> "both"]}

Sun2Sliders ==
    SunSliders \cup
    {[variable |-> "MOON_HEIGHT", values |-> MoonHeightValues, updateType |-> "moon"]}

Sliders(a) == IF a = "sun2" THEN Sun2Sliders ELSE SunSliders

(* The initial values of the dimension variables. *)
SunDefaults ==
    [RING_WIDTH |-> 220, HEIGHT |-> 100, SUN_DIAMETER |-> 1200, SUN_THICKNESS |-> 200,
     MOON_DIAMETER |-> 800, MOON_ANGLE |-> 180, FILLET_RADIUS |-> 30]

Sun2Defaults ==
    [RING_WIDTH |-> 150, HEIGHT |-> 100, SUN_DIAMETER |-> 750, SUN_THICKNESS |-> 140,
     MOON_DIAMETER |-> 400, MOON_ANGLE |-> 180, MOON_HEIGHT |-> 100,
     FILLET_RADIUS |-> 30]

(* A kernel operation of the log. *)
Op(op, arg) == [op |-> op, arg |-> arg]

(* The faults tried: the set of kernel operations that throw in one run. *)
SunFaults ==
    {{}, {Op("makeCylinder", "outerCylinder")}, {Op("cut", "sunPunch")},
     {Op("fuse", "sun")}, {Op("fillet", "full")},
     {Op("fillet", "full"), Op("fillet", "half")}, {Op("mesh", "ring")},
     {Op("makeCylinder", "moon")}, {Op("mesh", "moon")}}

SunFaultChoices == IF faults < MaxFaults THEN SunFaults ELSE {{}}

(* The index of the first operation of ops that throws, 0 if none does. *)
FirstThrow(ops, fault) ==
    IF \E i \in 1..Len(ops) : ops[i] \in fault
    THEN CHOOSE i \in 1..Len(ops) :
            /\ ops[i] \in fault
            /\ \A j \in 1..(i - 1) : ops[j] \notin fault
    ELSE 0

(* A fillet that gives up after the first failure. *)
ApplyFilletOnce(filletRadius, fault) ==
    IF filletRadius > 1
    THEN IF Op("fillet", "full") \notin fault
         THEN [log |-> <<Op("fillet", "full")>>, r2 |-> 2 * filletRadius]
         ELSE [log |-> <<Op("fillet", "full")>>, r2 |-> 0]
    ELSE [log |-> <<>>, r2 |-> 0]

(* if (FILLET_RADIUS > 0.01) { try fillet(r) catch { try fillet(r * 0.5) catch {} } }:
   the operations issued and the radius applied, doubled (0: no fillet). *)
ApplyFillet(filletRadius, fault) ==
    IF filletRadius > 1
    THEN IF Op("fillet", "full") \notin fault
         THEN [log |-> <<Op("fillet", "full")>>, r2 |-> 2 * filletRadius]
         ELSE IF Op("fillet", "half") \notin fault
         THEN [log |-> <<Op("fillet", "full"), Op("fillet", "half")>>,
               r2 |-> filletRadius]
         ELSE [log |-> <<Op("fillet", "full"), Op("fillet", "half")>>, r2 |-> 0]
    ELSE [log |-> <<>>, r2 |-> 0]

(* The calls with the sun fused before its hole is punched. *)
RingWithSunCallsFuseFirst ==
    <<Op("makeCylinder", "outerCylinder"), Op("makeCylinder", "innerCylinder"),
      Op("cut", "mainRing"),
      Op("makeCylinder", "sunOuter"), Op("makeCylinder", "sunInner"),
      Op("cut", "sun"),
      Op("translate", "sun"),
      Op("fuse", "sun"),
      Op("makeCylinder", "sunPunchCylinder"), Op("translate", "sunPunch"),
      Op("cut", "sunPunch")>>

(* The kernel calls of createRingWithSun before the fillet, in program order. *)
RingWithSunCalls ==
    <<Op("makeCylinder", "outerCylinder"), Op("makeCylinder", "innerCylinder"),
      Op("cut", "mainRing"),
      Op("makeCylinder", "sunOuter"), Op("makeCylinder", "sunInner"),
      Op("cut", "sun"),
      Op("translate", "sun"),
      Op("makeCylinder", "sunPunchCylinder"), Op("translate", "sunPunch"),
      Op("cut", "sunPunch"),
      Op("fuse", "sun")>>

(* createRingWithSun(): the operations issued, whether one threw, and the
   fillet applied to the shape returned. *)
createRingWithSun(d, fault) ==
    LET k == FirstThrow(RingWithSunCalls, fault)
        f == ApplyFillet(d.FILLET_RADIUS, fault)
    IN  IF k # 0
        THEN [log |-> SubSeq(RingWithSunCalls, 1, k), error |-> "kernel", r2 |-> 0]
        ELSE [log |-> RingWithSunCalls \o f.log, error |-> "none", r2 |-> f.r2]

(* The height of the moon cylinder: HEIGHT in sun-ring, MOON_HEIGHT in sun-ring2. *)
MoonHeightOf(a, d) == IF a = "sun2" THEN d.MOON_HEIGHT ELSE d.HEIGHT

(* createMoonGeometry() *)
createMoonGeometry(d, fault) ==
    LET f == ApplyFillet(d.FILLET_RADIUS, fault)
    IN  IF Op("makeCylinder", "moon") \in fault
        THEN [log |-> <<Op("makeCylinder", "moon")>>, error |-> "kernel", r2 |-> 0]
        ELSE [log |-> <<Op("makeCylinder", "moon")>> \o f.log, error |-> "none",
              r2 |-> f.r2]

(* The meshes handed to the renderer, with the values they were built from. *)
RingSunMesh(d, r2) ==
    [kind |-> "ring", RING_WIDTH |-> d.RING_WIDTH, HEIGHT |-> d.HEIGHT,
     SUN_DIAMETER |-> d.SUN_DIAMETER, SUN_THICKNESS |-> d.SUN_THICKNESS, r2 |-> r2]

AtOrigin == [angle |-> 0, ringWidth |-> 0]

MoonMeshOf(a, d, r2) ==
    [kind |-> "moon", MOON_DIAMETER |-> d.MOON_DIAMETER, height |-> MoonHeightOf(a, d),
     r2 |-> r2, position |-> AtOrigin]

(* updateMoonPosition(): the moon is placed on the ring's centerline (which
   RING_WIDTH decides) at MOON_ANGLE. *)
updateMoonPosition(mesh, d) ==
    IF mesh = NULL THEN NULL
    ELSE [mesh EXCEPT !.position = [angle |-> d.MOON_ANGLE, ringWidth |-> d.RING_WIDTH]]

(* The moon of the scene, replaced by the moon as moved (the mesh is
   mutated in place). *)
MoveInScene(sc, old, new) == IF old \in sc THEN (sc \ {old}) \cup {new} ELSE sc

(* Building and meshing the moon: makeCylinder, fillet, mesh. *)
BuildMoon(a, d, fault) ==
    LET m == createMoonGeometry(d, fault)
    IN  IF m.error # "none"
        THEN [log |-> m.log, error |-> "kernel", mesh |-> NULL]
        ELSE IF Op("mesh", "moon") \in fault
        THEN [log |-> m.log \o <<Op("mesh", "moon")>>, error |-> "kernel", mesh |-> NULL]
        ELSE [log |-> m.log \o <<Op("mesh", "moon")>>, error |-> "none",
              mesh |-> updateMoonPosition(MoonMeshOf(a, d, m.r2), d)]

(* createAndDisplayRing() / createAndDisplayJewelry(): the body of the try.
   The result: log, error, and the ringMesh, moonMesh and scene it leaves. *)
DisplayRing(a, d, fault) ==
    LET r == createRingWithSun(d, fault)
        newRing == RingSunMesh(d, r.r2)
        sceneWithRing == (scene \ {ringMesh}) \cup {newRing}
        moon == BuildMoon(a, d, fault)
        moved == updateMoonPosition(moonMesh, d)
        kept == [log |-> r.log, error |-> "kernel", ringMesh |-> ringMesh,
                 moonMesh |-> moonMesh, scene |-> scene]
    IN  IF r.error # "none" THEN kept
        ELSE IF Op("mesh", "ring") \in fault
        THEN [kept EXCEPT !.log = r.log \o <<Op("mesh", "ring")>>]
        ELSE IF moonMesh # NULL
        THEN [log |-> r.log \o <<Op("mesh", "ring")>>, error |-> "none",
              ringMesh |-> newRing, moonMesh |-> moved,
              scene |-> MoveInScene(sceneWithRing, moonMesh, moved)]
        ELSE IF moon.error # "none"
        THEN [log |-> r.log \o <<Op("mesh", "ring")>> \o moon.log, error |-> "kernel",
              ringMesh |-> newRing, moonMesh |-> NULL, scene |-> sceneWithRing]
        ELSE [log |-> r.log \o <<Op("mesh", "ring")>> \o moon.log, error |-> "none",
              ringMesh |-> newRing, moonMesh |-> moon.mesh,
              scene |-> sceneWithRing \cup {moon.mesh}]

(* A createAndDisplayRing whose catch leaves the loading indicator up. *)
createAndDisplayRingLoadingLeft(d, fault) ==
    LET res == DisplayRing(app, d, fault)
    IN  /\ kernelLog' = res.log
        /\ kernelMisuse' = (kernelMisuse \/ (res.log # <<>> /\ ~ocSet'))
        /\ faults' = faults + (IF fault = {} THEN 0 ELSE 1)
        /\ lastRun' = [kind |-> "createAndDisplayRing", error |-> res.error,
                       alerted |-> (res.error # "none"),
                       shownLoading |-> (app = "sun2" \/ ~isAnimating)]
        /\ loadingHidden' = (res.error = "none")
        /\ ringMesh' = res.ringMesh
        /\ moonMesh' = res.moonMesh
        /\ scene' = res.scene

(* createAndDisplayRing() / createAndDisplayJewelry(): try and catch.  d is
   the value of the dimension variables when it is called. *)
createAndDisplayRing(d, fault) ==
    LET res == DisplayRing(app, d, fault)
    IN  /\ kernelLog' = res.log
        /\ kernelMisuse' = (kernelMisuse \/ (res.log # <<>> /\ ~ocSet'))
        /\ faults' = faults + (IF fault = {} THEN 0 ELSE 1)
        /\ lastRun' = [kind |-> "createAndDisplayRing", error |-> res.error,
                       alerted |-> (res.error # "none"),
                       shownLoading |-> (app = "sun2" \/ ~isAnimating)]
        /\ loadingHidden' = TRUE
        /\ ringMesh' = res.ringMesh
        /\ moonMesh' = res.moonMesh
        /\ scene' = res.scene

(* rebuildMoonMesh(): the old moon is removed first; the catch only logs. *)
rebuildMoonMesh(d, fault) ==
    LET moon == BuildMoon(app, d, fault)
    IN  /\ kernelLog' = moon.log
        /\ kernelMisuse' = (kernelMisuse \/ (moon.log # <<>> /\ ~ocSet'))
        /\ faults' = faults + (IF fault = {} THEN 0 ELSE 1)
        /\ lastRun' = [kind |-> "rebuildMoonMesh", error |-> moon.error,
                       alerted |-> FALSE, shownLoading |-> FALSE]
        /\ moonMesh' = moon.mesh
        /\ scene' = (scene \ {moonMesh}) \cup
                      (IF moon.error = "none" THEN {moon.mesh} ELSE {})
        /\ UNCHANGED <<loadingHidden, ringMesh>>

(* A handler that calls no kernel operation and raises nothing. *)
QuietRun(kind) ==
    /\ kernelLog' = <<>>
    /\ lastRun' = [kind |-> kind, error |-> "none", alerted |-> FALSE,
                   shownLoading |-> FALSE]
    /\ UNCHANGED <<kernelMisuse, faults, loadingHidden>>

(* A load failure that leaves the flag set. *)
SunKernelLoadFailedFlagSet ==
    /\ lastEvent' = Event("SunKernelLoadFailed", <<>>)
    /\ app \in {"sun", "sun2"}
    /\ initPhase = "loading"
    /\ initPhase' = "failed"
    /\ isInitialized' = TRUE
    /\ QuietRun("initializeReplicad")
    /\ UNCHANGED <<app, events, ocSet, ringMesh, ringOnlyVars, sunVars>>

(* initializeApp, resumed when the kernel load settles: setOC and
   isInitialized = true, initThreeJS, setupSliders, setupPresetButtons, and
   the first createAndDisplayRing. *)
SunKernelLoaded ==
    /\ lastEvent' = Event("SunKernelLoaded", <<>>)
    /\ app \in {"sun", "sun2"}
    /\ initPhase = "loading"
    /\ isInitialized' = TRUE
    /\ ocSet' = TRUE
    /\ initPhase' = "ready"
    /\ \E fault \in SunFaultChoices : createAndDisplayRing(dims, fault)
    /\ UNCHANGED <<app, events, ringOnlyVars, dims, animationVars, localStorage, savedDims>>

(* The same, when opencascade() rejects: the catch of initializeReplicad
   logs the error; the listeners are attached, nothing is built. *)
SunKernelLoadFailed ==
    /\ lastEvent' = Event("SunKernelLoadFailed", <<>>)
    /\ app \in {"sun", "sun2"}
    /\ initPhase = "loading"
    /\ initPhase' = "failed"
    /\ kernelLog' = <<>>
    /\ lastRun' = [kind |-> "initializeReplicad", error |-> "kernel",
                   alerted |-> FALSE, shownLoading |-> FALSE]
    /\ UNCHANGED <<app, events, isInitialized, ocSet, kernelMisuse, faults, loadingHidden,
                   ringMesh, ringOnlyVars, sunVars>>

(* The 'input' handler of a dimension slider (attached by setupSliders). *)
SliderHandler(slider, value, fault) ==
    LET d == [dims EXCEPT ![slider.variable] = value]
    IN  /\ dims' = d
        /\ IF ~isInitialized
           THEN QuietRun("slider") /\ UNCHANGED sunMeshVars
           ELSE CASE slider.updateType \in {"ring", "both"} ->
                       createAndDisplayRing(d, fault)
                  [] slider.updateType = "moon" ->
                       rebuildMoonMesh(d, fault)
                  [] slider.updateType = "transform" ->
                       /\ QuietRun("slider")
                       /\ moonMesh' = updateMoonPosition(moonMesh, d)
                       /\ scene' = MoveInScene(scene, moonMesh, moonMesh')
                       /\ UNCHANGED ringMesh

SunSliderInput ==
    /\ app \in {"sun", "sun2"}
    /\ initPhase # "loading"
    /\ events < MaxEvents
    /\ events' = events + 1
    /\ UNCHANGED <<app, kernelVars, ringOnlyVars, animationVars, localStorage, savedDims>>
    /\ \E slider \in Sliders(app) : \E value \in slider.values : \E fault \in SunFaultChoices :
          /\ lastEvent' = Event("SunSliderInput", slider.variable)
          /\ SliderHandler(slider, value, fault)

(***************************************************************************)
(* Presets: JavaScript objects, JSON text and localStorage                 *)
(***************************************************************************)
(* A JavaScript object with string keys: its keys in insertion order and
   their values. *)
EmptyObject == [keys |-> <<>>, val |-> <<>>]

Has(o, k) == \E i \in 1..Len(o.keys) : o.keys[i] = k

(* An own property k: v is defined: an existing key keeps its place, a new
   key is appended. *)
Put(o, k, v) ==
    IF Has(o, k)
    THEN [o EXCEPT !.val[k] = v]
    ELSE [keys |-> Append(o.keys, k),
          val |-> [x \in DOMAIN o.val \cup {k} |-> IF x = k THEN v ELSE o.val[x]]]

(* The property name that Object.prototype defines as an accessor, as the
   characters typed. *)
ProtoName == <<"_", "_", "p", "r", "o", "t", "o", "_", "_">>

(* o[name] = v for a computed name, on an object as JSON.parse returns it:
   o["__proto__"] = v runs the inherited setter, which replaces the
   prototype and defines no own property. *)
Assign(o, name, v) == IF name = ProtoName THEN o ELSE Put(o, name, v)

(* delete o[k] *)
Delete(o, k) ==
    [keys |-> SelectSeq(o.keys, LAMBDA x : x # k),
     val |-> [x \in DOMAIN o.val \ {k} |-> o.val[x]]]

(* o.k || fallback: undefined and 0 are falsy. *)
OrElse(o, k, fallback) == IF Has(o, k) /\ o.val[k] # 0 THEN o.val[k] ELSE fallback

(* The decimal digits of a natural number, and the number they denote. *)
DigitChars == <<"0", "1", "2", "3", "4", "5", "6", "7", "8", "9">>

RECURSIVE Digits(_)
Digits(n) == IF n < 10 THEN <<DigitChars[n + 1]>>
             ELSE Append(Digits(n \div 10), DigitChars[(n % 10) + 1])

DigitValue(c) == (CHOOSE i \in 1..10 : DigitChars[i] = c) - 1

RECURSIVE DigitsValue(_)
DigitsValue(t) == IF t = <<>> THEN 0
                  ELSE 10 * DigitsValue(SubSeq(t, 1, Len(t) - 1)) + DigitValue(t[Len(t)])

(* JSON.stringify and JSON.parse of a finite number (the model's numbers
   are hundredths, so the text is that of the number times 100). *)
StringifyNumber(n) == IF n < 0 THEN <<"-">> \o Digits(0 - n) ELSE Digits(n)
ParseNumber(t) == IF Head(t) = "-" THEN 0 - DigitsValue(Tail(t)) ELSE DigitsValue(t)

(* The keys of a JSON object text in order, and the text of a key's value. *)
TextKeys(text) == [i \in 1..Len(text) |-> text[i][1]]
TextValue(text, k) == text[CHOOSE i \in 1..Len(text) : text[i][1] = k][2]

(* JSON.stringify of an object: its members, "key": value, in key order;
   JSON.parse of such a text.  First for a preset, then for the object of
   all presets. *)
StringifyPreset(p) ==
    [i \in 1..Len(p.keys) |-> <<p.keys[i], StringifyNumber(p.val[p.keys[i]])>>]

ParsePreset(t) ==
    [keys |-> TextKeys(t),
     val |-> [k \in {t[i][1] : i \in 1..Len(t)} |-> ParseNumber(TextValue(t, k))]]

StringifyPresets(ps) ==
    [i \in 1..Len(ps.keys) |-> <<ps.keys[i], StringifyPreset(ps.val[ps.keys[i]])>>]

ParsePresets(t) ==
    [keys |-> TextKeys(t),
     val |-> [k \in {t[i][1] : i \in 1..Len(t)} |-> ParsePreset(TextValue(t, k))]]

(* localStorage: nothing stored under the key, or a text. *)
NoItem == [stored |-> FALSE]
Item(text) == [stored |-> TRUE, text |-> text]

(* JSON.parse(localStorage.getItem(key) || '{}') *)
StoredPresets(storage) ==
    IF storage.stored THEN ParsePresets(storage.text) ELSE EmptyObject

(* String.prototype.trim, on a string written as a sequence of characters. *)
RECURSIVE TrimStart(_)
TrimStart(str) ==
    IF str # <<>> /\ Head(str) = " " THEN TrimStart(Tail(str)) ELSE str

RECURSIVE TrimEnd(_)
TrimEnd(str) ==
    IF str # <<>> /\ str[Len(str)] = " "
    THEN TrimEnd(SubSeq(str, 1, Len(str) - 1)) ELSE str

Trim(str) == TrimEnd(TrimStart(str))

(* What the user may type into #presetName. *)
NameInputs == {<<" ">>, <<" ", "a", " ">>, <<"b">>, ProtoName}

(* The object literal of savePreset. *)
PresetOf(a, d) ==
    LET common == Put(Put(Put(Put(Put(Put(EmptyObject,
                      "ringWidth", d.RING_WIDTH),
                      "height", d.HEIGHT),
                      "sunDiameter", d.SUN_DIAMETER),
                      "sunWidth", d.SUN_THICKNESS),
                      "moonDiameter", d.MOON_DIAMETER),
                      "moonAngle", d.MOON_ANGLE)
    IN  IF a = "sun2"
        THEN Put(Put(common, "moonHeight", d.MOON_HEIGHT), "filletRadius", d.FILLET_RADIUS)
        ELSE Put(common, "filletRadius", d.FILLET_RADIUS)

(* The key of the object literal under which a dimension variable is saved. *)
PresetField(variable) ==
    CASE variable = "RING_WIDTH" -> "ringWidth"
      [] variable = "HEIGHT" -> "height"
      [] variable = "SUN_DIAMETER" -> "sunDiameter"
      [] variable = "SUN_THICKNESS" -> "sunWidth"
      [] variable = "MOON_DIAMETER" -> "moonDiameter"
      [] variable = "MOON_ANGLE" -> "moonAngle"
      [] variable = "MOON_HEIGHT" -> "moonHeight"
      [] variable = "FILLET_RADIUS" -> "filletRadius"

(* presets[presetName] = preset; localStorage.setItem(key, JSON.stringify(presets)) *)
StorePreset(storage, name, preset) ==
    Item(StringifyPresets(Assign(StoredPresets(storage), name, preset)))

(* savePreset() *)
SavePreset ==
    /\ app \in {"sun", "sun2"}
    /\ initPhase # "loading"
    /\ events < MaxEvents
    /\ events' = events + 1
    /\ \E input \in NameInputs :
        LET presetName == Trim(input)
        IN  /\ lastEvent' = Event("SavePreset", input)
            /\ kernelLog' = <<>>
            /\ lastRun' = [kind |-> "savePreset", error |-> "none",
                           alerted |-> (presetName = <<>>), shownLoading |-> FALSE,
                           input |-> input]
            /\ localStorage' = IF presetName = <<>> THEN localStorage
                               ELSE StorePreset(localStorage, presetName,
                                                PresetOf(app, dims))
            /\ savedDims' = IF presetName = <<>> THEN savedDims
                            ELSE [n \in DOMAIN savedDims \cup {presetName} |->
                                    IF n = presetName THEN dims ELSE savedDims[n]]
    /\ UNCHANGED <<app, kernelVars, kernelMisuse, faults, loadingHidden, ringMesh, ringOnlyVars,
                   dims, moonMesh, scene, animationVars>>

(* The assignments of loadPreset to the dimension variables. *)
LoadedDims(a, preset) ==
    IF a = "sun2"
    THEN [RING_WIDTH |-> preset.val["ringWidth"],
          HEIGHT |-> preset.val["height"],
          SUN_DIAMETER |-> preset.val["sunDiameter"],
          SUN_THICKNESS |-> preset.val["sunWidth"],
          MOON_DIAMETER |-> preset.val["moonDiameter"],
          MOON_ANGLE |-> preset.val["moonAngle"],
          MOON_HEIGHT |-> OrElse(preset, "moonHeight", preset.val["height"]),
          FILLET_RADIUS |-> preset.val["filletRadius"]]
    ELSE [RING_WIDTH |-> preset.val["ringWidth"],
          HEIGHT |-> OrElse(preset, "height", OrElse(preset, "ringHeight", 100)),
          SUN_DIAMETER |-> preset.val["sunDiameter"],
          SUN_THICKNESS |-> preset.val["sunWidth"],
          MOON_DIAMETER |-> OrElse(preset, "moonDiameter", 800),
          MOON_ANGLE |-> OrElse(preset, "moonAngle", 180),
          FILLET_RADIUS |-> OrElse(preset, "filletRadius", 30)]

(* loadPreset().  The options of #presetList are the stored names
   (updatePresetList runs after every change of the storage); selected is
   the option chosen, <<>> for "-- Select Preset --". *)
LoadPreset ==
    /\ app \in {"sun", "sun2"}
    /\ initPhase # "loading"
    /\ events < MaxEvents
    /\ events' = events + 1
    /\ UNCHANGED <<app, kernelVars, ringOnlyVars, animationVars, localStorage, savedDims>>
    /\ LET presets == StoredPresets(localStorage)
       IN  \E selected \in {presets.keys[i] : i \in 1..Len(presets.keys)} \cup {<<>>} :
             /\ lastEvent' = Event("LoadPreset", selected)
             /\ IF selected = <<>>
                THEN /\ kernelLog' = <<>>
                     /\ lastRun' = [kind |-> "loadPreset", error |-> "none",
                                    alerted |-> TRUE, shownLoading |-> FALSE,
                                    input |-> selected]
                     /\ UNCHANGED <<kernelMisuse, faults, loadingHidden, sunMeshVars, dims>>
                ELSE /\ dims' = LoadedDims(app, presets.val[selected])
                     /\ IF isInitialized
                        THEN \E fault \in SunFaultChoices :
                               /\ createAndDisplayRing(dims', fault)
                        ELSE /\ QuietRun("loadPreset")
                             /\ UNCHANGED sunMeshVars

(* deletePreset(), confirmed or not. *)
DeletePreset ==
    /\ app \in {"sun", "sun2"}
    /\ initPhase # "loading"
    /\ events < MaxEvents
    /\ events' = events + 1
    /\ QuietRun("deletePreset")
    /\ LET presets == StoredPresets(localStorage)
       IN  \E selected \in {presets.keys[i] : i \in 1..Len(presets.keys)} :
           \E confirmed \in BOOLEAN :
             /\ lastEvent' = Event("DeletePreset", selected)
             /\ localStorage' = IF confirmed
                                THEN Item(StringifyPresets(Delete(presets, selected)))
                                ELSE localStorage
    /\ UNCHANGED <<app, kernelVars, ringOnlyVars, animationVars, sunMeshVars, dims, savedDims>>

(***************************************************************************)
(* The moon animation                                                      *)
(***************************************************************************)
(* easeInOutCubic(t), for t and the result in halves: t < 0.5 ? 4 t^3 :
   1 - (-2 t + 2)^3 / 2. *)
easeInOutCubic(p) == IF p < 1 THEN p * p * p ELSE 2 - (2 - p) * (2 - p) * (2 - p)

(* The degrees one run of the animation adds: 20 in sun-ring,
   animationDegrees in sun-ring2. *)
AnimationStep(a) == IF a = "sun2" THEN animationDegrees ELSE 20

(* The body of animateFrame at a progress of p halves. *)
Frame(p, startAngle, targetAngle) ==
    LET angle == startAngle + ((targetAngle - startAngle) * easeInOutCubic(p)) \div 2
        d == [dims EXCEPT !.MOON_ANGLE = angle]
    IN  /\ dims' = d
        /\ moonMesh' = updateMoonPosition(moonMesh, d)
        /\ scene' = MoveInScene(scene, moonMesh, moonMesh')
        /\ isAnimating' = (p < 2)

(* startAnimationTest() / startAnimation(): refused while an animation runs
   or before the moon exists; else the first frame runs at once. *)
StartAnimation ==
    /\ lastEvent' = Event("StartAnimation", <<>>)
    /\ app \in {"sun", "sun2"}
    /\ events < MaxEvents
    /\ events' = events + 1
    /\ QuietRun("startAnimation")
    /\ IF isAnimating \/ moonMesh = NULL
       THEN UNCHANGED <<dims, moonMesh, scene, isAnimating, animationStartAngle,
                        animationTargetAngle>>
       ELSE /\ animationStartAngle' = dims.MOON_ANGLE
            /\ animationTargetAngle' = dims.MOON_ANGLE + AnimationStep(app)
            /\ Frame(0, animationStartAngle', animationTargetAngle')
    /\ UNCHANGED <<app, kernelVars, ringMesh, ringOnlyVars, animationDegrees, localStorage, savedDims>>

(* animateFrame(), called back by requestAnimationFrame half way or at the
   end of the animation. *)
AnimateFrame ==
    /\ lastEvent' = Event("AnimateFrame", <<>>)
    /\ app \in {"sun", "sun2"}
    /\ isAnimating
    /\ QuietRun("animateFrame")
    /\ \E p \in {1, 2} : Frame(p, animationStartAngle, animationTargetAngle)
    /\ UNCHANGED <<app, events, kernelVars, ringMesh, ringOnlyVars, animationStartAngle,
                   animationTargetAngle, animationDegrees, localStorage, savedDims>>

(* The 'input' handler of the animationDegrees slider (sun-ring2). *)
AnimationDegreesInput ==
    /\ lastEvent' = Event("AnimationDegreesInput", <<>>)
    /\ app = "sun2"
    /\ initPhase # "loading"
    /\ events < MaxEvents
    /\ events' = events + 1
    /\ QuietRun("animationDegrees")
    /\ \E v \in AnimationDegreesValues : animationDegrees' = v
    /\ UNCHANGED <<app, kernelVars, ringOnlyVars, sunMeshVars, dims, isAnimating,
                   animationStartAngle, animationTargetAngle, localStorage, savedDims>>

(***************************************************************************)
(* The subdivision comparison demo (part_000, lines 2160-2575)             *)
(***************************************************************************)
notDemoVars == <<isInitialized, ringMesh, helperMesh, isPreviewMode, qualityUpdateTimeout,
                 sinceInput, hqSinceInput, hqRuns, sliders, meshQuality, dims, moonMesh,
                 animationVars, localStorage, savedDims>>

(* setTimeout(resolve, 100) of the regenerate handler, in ticks. *)
RegenerateDelayTicks == 1

DisplayMethods == {"original", "loop", "catmull", "compare"}
IterationValues == {0, 1}
(* In thousandths and in degrees. *)
ToleranceValues == {10, 100}
AngularToleranceValues == {10, 30}

(* What may throw while the geometries are generated: the kernel's
   makeBaseBox or mesh, or one of the two subdivision libraries
   (applyCatmullClark catches its library's throw and stops iterating). *)
DemoFaults == {"none", "makeBaseBox", "mesh", "loop", "catmull"}

DemoFaultChoices == IF faults < MaxFaults THEN DemoFaults ELSE {"none"}

NoGeometries == [originalGeometry |-> NULL, loopGeometry |-> NULL, catmullGeometry |-> NULL]

Geometry(method, iterations, p) ==
    [method |-> method, iterations |-> iterations, tolerance |-> p.tolerance,
     angularTolerance |-> p.angularTolerance]

(* A material that is always solid. *)
createMaterialSolid(color, wireframe) == [color |-> color, wireframe |-> FALSE]

(* createMaterial(color): the material takes wireframeEnabled as it is now. *)
createMaterial(color, wireframe) == [color |-> color, wireframe |-> wireframe]

NewMesh(geometry, color, x, wireframe) ==
    [geometry |-> geometry, material |-> createMaterial(color, wireframe), x |-> x]

(* displayMeshes(): the meshes of currentMeshes after it, for a display
   method and the geometries stored. *)
DisplayedMeshes(method, g, wireframe) ==
    LET one(geometry, color, x) ==
            IF geometry = NULL THEN <<>> ELSE <<NewMesh(geometry, color, x, wireframe)>>
    IN  CASE method = "compare" ->
                one(g.originalGeometry, "blue", 0 - 5) \o one(g.loopGeometry, "green", 0)
                  \o one(g.catmullGeometry, "orange", 5)
          [] method = "original" -> one(g.originalGeometry, "blue", 0)
          [] method = "loop" -> one(g.loopGeometry, "green", 0)
          [] method = "catmull" -> one(g.catmullGeometry, "orange", 0)

Range(seq) == {seq[i] : i \in 1..Len(seq)}

(* displayMeshes() *)
displayMeshes(method, g) ==
    LET shown == DisplayedMeshes(method, g, wireframeEnabled)
    IN  /\ currentMeshes' = shown
        /\ scene' = (scene \ Range(currentMeshes)) \cup Range(shown)

(* generateGeometries(): createReplicadCube (makeBaseBox, mesh), the two
   subdivisions, updateStats and displayMeshes.  Before setOC the kernel
   call throws.  The result: log, error and the geometries stored when it
   ends. *)
GenerateGeometries(p, g, kernelReady, fault) ==
    LET original == Geometry("original", 0, p)
        withOriginal == [g EXCEPT !.originalGeometry = original]
        withLoop == [withOriginal EXCEPT !.loopGeometry = Geometry("loop", p.iterations, p)]
        done == IF fault = "catmull" THEN 0 ELSE p.iterations
        all == [withLoop EXCEPT !.catmullGeometry = Geometry("catmull", done, p)]
    IN  IF ~kernelReady \/ fault = "makeBaseBox"
        THEN [log |-> <<"makeBaseBox">>, error |-> "kernel", geometries |-> g]
        ELSE IF fault = "mesh"
        THEN [log |-> <<"makeBaseBox", "mesh">>, error |-> "kernel", geometries |-> g]
        ELSE IF fault = "loop" /\ p.iterations > 0
        THEN [log |-> <<"makeBaseBox", "mesh">>, error |-> "subdivision",
              geometries |-> withOriginal]
        ELSE [log |-> <<"makeBaseBox", "mesh">>, error |-> "none", geometries |-> all]

(* await generateGeometries(), then hiding #loading, as init and the
   regenerate handler both do; a throw skips the rest of the caller. *)
GenerateAndHide(kind, fault) ==
    LET res == GenerateGeometries(demoParams, geometries, ocSet', fault)
    IN  /\ kernelLog' = res.log
        /\ kernelMisuse' = (kernelMisuse \/ (res.log # <<>> /\ ~ocSet'))
        /\ faults' = faults + (IF fault = "none" THEN 0 ELSE 1)
        /\ lastRun' = [kind |-> kind, error |-> res.error, alerted |-> FALSE,
                       shownLoading |-> FALSE]
        /\ geometries' = res.geometries
        /\ IF res.error = "none"
           THEN /\ displayMeshes(demoParams.displayMethod, res.geometries)
                /\ loadingHidden' = TRUE
           ELSE UNCHANGED <<currentMeshes, scene, loadingHidden>>

(* init(), resumed when the kernel load settles: setOC, generateGeometries,
   hide #loading. *)
DemoKernelLoaded ==
    /\ lastEvent' = Event("DemoKernelLoaded", <<>>)
    /\ app = "demo"
    /\ initPhase = "loading"
    /\ ocSet' = TRUE
    /\ initPhase' = "ready"
    /\ \E fault \in DemoFaultChoices : GenerateAndHide("init", fault)
    /\ UNCHANGED <<app, events, timers, nextTimerId, demoParams, wireframeEnabled, notDemoVars>>

(* opencascade() rejects: init() rejects, its catch writes the error into
   the loading text. *)
DemoKernelLoadFailed ==
    /\ lastEvent' = Event("DemoKernelLoadFailed", <<>>)
    /\ app = "demo"
    /\ initPhase = "loading"
    /\ initPhase' = "failed"
    /\ kernelLog' = <<>>
    /\ lastRun' = [kind |-> "initializeReplicad", error |-> "kernel", alerted |-> FALSE,
                   shownLoading |-> FALSE]
    /\ UNCHANGED <<app, events, ocSet, kernelMisuse, faults, loadingHidden, timers,
                   nextTimerId, scene, demoVars, notDemoVars>>

(* The handlers setupControls attaches, before the kernel load is awaited. *)
DisplayMethodChange ==
    /\ lastEvent' = Event("DisplayMethodChange", <<>>)
    /\ app = "demo"
    /\ events < MaxEvents
    /\ events' = events + 1
    /\ QuietRun("displayMethod")
    /\ \E method \in DisplayMethods :
        /\ demoParams' = [demoParams EXCEPT !.displayMethod = method]
        /\ displayMeshes(method, geometries)
    /\ UNCHANGED <<app, ocSet, initPhase, timers, nextTimerId, wireframeEnabled, geometries,
                   notDemoVars>>

IterationsInput ==
    /\ lastEvent' = Event("IterationsInput", <<>>)
    /\ app = "demo"
    /\ events < MaxEvents
    /\ events' = events + 1
    /\ QuietRun("iterations")
    /\ \E n \in IterationValues : demoParams' = [demoParams EXCEPT !.iterations = n]
    /\ UNCHANGED <<app, ocSet, initPhase, timers, nextTimerId, scene, wireframeEnabled,
                   currentMeshes, geometries, notDemoVars>>

ToleranceInput ==
    /\ lastEvent' = Event("ToleranceInput", <<>>)
    /\ app = "demo"
    /\ events < MaxEvents
    /\ events' = events + 1
    /\ QuietRun("tolerance")
    /\ \E v \in ToleranceValues : demoParams' = [demoParams EXCEPT !.tolerance = v]
    /\ UNCHANGED <<app, ocSet, initPhase, timers, nextTimerId, scene, wireframeEnabled,
                   currentMeshes, geometries, notDemoVars>>

AngularToleranceInput ==
    /\ lastEvent' = Event("AngularToleranceInput", <<>>)
    /\ app = "demo"
    /\ events < MaxEvents
    /\ events' = events + 1
    /\ QuietRun("angularTolerance")
    /\ \E v \in AngularToleranceValues :
        demoParams' = [demoParams EXCEPT !.angularTolerance = v]
    /\ UNCHANGED <<app, ocSet, initPhase, timers, nextTimerId, scene, wireframeEnabled,
                   currentMeshes, geometries, notDemoVars>>

(* The click handler of #regenerate, up to its first await. *)
RegenerateClick ==
    /\ lastEvent' = Event("RegenerateClick", <<>>)
    /\ app = "demo"
    /\ events < MaxEvents
    /\ events' = events + 1
    /\ kernelLog' = <<>>
    /\ lastRun' = [kind |-> "regenerateClick", error |-> "none", alerted |-> FALSE,
                   shownLoading |-> TRUE]
    /\ loadingHidden' = FALSE
    /\ timers' = timers \cup {[id |-> nextTimerId, remaining |-> RegenerateDelayTicks]}
    /\ nextTimerId' = nextTimerId + 1
    /\ UNCHANGED <<app, ocSet, initPhase, kernelMisuse, faults, scene, demoVars, notDemoVars>>

(* The rest of the click handler, when its 100 ms timer has run. *)
RegenerateResume ==
    /\ lastEvent' = Event("RegenerateResume", <<>>)
    /\ app = "demo"
    /\ \E t \in timers :
        /\ t.remaining = 0
        /\ timers' = timers \ {t}
    /\ UNCHANGED ocSet
    /\ \E fault \in DemoFaultChoices : GenerateAndHide("regenerate", fault)
    /\ UNCHANGED <<app, events, initPhase, nextTimerId, demoParams, wireframeEnabled, notDemoVars>>

(* The click handler of #toggleWireframe: the meshes are changed in place. *)
ToggleWireframe ==
    /\ lastEvent' = Event("ToggleWireframe", <<>>)
    /\ app = "demo"
    /\ events < MaxEvents
    /\ events' = events + 1
    /\ QuietRun("toggleWireframe")
    /\ wireframeEnabled' = ~wireframeEnabled
    /\ currentMeshes' = [i \in 1..Len(currentMeshes) |->
                           [currentMeshes[i] EXCEPT !.material.wireframe = wireframeEnabled']]
    /\ scene' = (scene \ Range(currentMeshes)) \cup Range(currentMeshes')
    /\ UNCHANGED <<app, ocSet, initPhase, timers, nextTimerId, demoParams, geometries,
                   notDemoVars>>

InitCommon ==
    /\ lastEvent = Event("none", <<>>)
    /\ events = 0
    /\ isInitialized = FALSE
    /\ ocSet = FALSE
    /\ initPhase = "loading"
    /\ kernelLog = <<>>
    /\ kernelMisuse = FALSE
    /\ faults = 0
    /\ lastRun = NoRun
    /\ loadingHidden = FALSE
    /\ ringMesh = NULL
    /\ helperMesh = NULL
    /\ isPreviewMode = FALSE
    /\ timers = {}
    /\ nextTimerId = 1
    /\ qualityUpdateTimeout = NoTimer
    /\ sinceInput = Never
    /\ hqSinceInput = 0
    /\ hqRuns = 0
    /\ sliders = [outerDiameter |-> 2000, innerDiameter |-> 1800, height |-> 200,
                  filletRadius |-> 50, meshQuality |-> 4]
    /\ meshQuality = 4
    /\ moonMesh = NULL
    /\ scene = {}
    /\ isAnimating = FALSE
    /\ animationStartAngle = 0
    /\ animationTargetAngle = 0
    /\ localStorage = NoItem
    /\ savedDims = <<>>
    /\ dims = IF app = "sun2" THEN Sun2Defaults ELSE SunDefaults
    /\ animationDegrees = 360
    /\ demoParams = [tolerance |-> 10, angularTolerance |-> 10, iterations |-> 1,
                     displayMethod |-> "original"]
    /\ wireframeEnabled = FALSE
    /\ currentMeshes = <<>>
    /\ geometries = NoGeometries

InitRing == app \in RingApps /\ InitCommon

NextRing == RingKernelLoaded \/ RingKernelLoadFailed \/ RingSliderInput
            \/ RingQualityTimer \/ Tick

SpecRing == InitRing /\ [][NextRing]_vars

InitSun == app \in {"sun", "sun2"} /\ InitCommon

NextSun == SunKernelLoaded \/ SunKernelLoadFailed \/ SunSliderInput \/ SavePreset
           \/ LoadPreset \/ DeletePreset \/ StartAnimation \/ AnimateFrame
           \/ AnimationDegreesInput

SpecSun == InitSun /\ [][NextSun]_vars

InitDemo == app = "demo" /\ InitCommon

NextDemo == DemoKernelLoaded \/ DemoKernelLoadFailed \/ DisplayMethodChange
            \/ IterationsInput \/ ToleranceInput \/ AngularToleranceInput
            \/ RegenerateClick \/ RegenerateResume
            \/ ToggleWireframe \/ Tick

SpecDemo == InitDemo /\ [][NextDemo]_vars

(* The demo with the browser's scheduling: the kernel load settles, time
   passes, and a timer that is due runs its callback (the rest of the
   regenerate handler). *)
SpecDemoFair ==
    /\ SpecDemo
    /\ WF_vars(DemoKernelLoaded \/ DemoKernelLoadFailed)
    /\ WF_vars(Tick)
    /\ WF_vars(RegenerateResume)

(* The three configurators. *)
InitConfigurators == app \in RingApps \cup {"sun", "sun2"} /\ InitCommon

NextConfigurators == NextRing \/ NextSun

SpecConfigurators == InitConfigurators /\ [][NextConfigurators]_vars

(***************************************************************************)
(* C1: in the ring and sun configurators no kernel operation runs before   *)
(* initialization has succeeded: the flag is only set with the kernel      *)
(* installed, a handler that calls the kernel has seen the flag, and no    *)
(* kernel call was ever made without the kernel.                           *)
(***************************************************************************)
C1_KernelAfterInit ==
    /\ ~kernelMisuse
    /\ isInitialized => ocSet
    /\ kernelLog # <<>> => isInitialized

(* A slider or preset handler has called the kernel. *)
C1_Witness ==
    /\ events > 0
    /\ kernelLog # <<>>
    /\ lastRun.kind \in {"preview", "createAndDisplayRing", "rebuildMoonMesh"}

(***************************************************************************)
(* C2: in the subdivision demo createReplicadCube (makeBaseBox, mesh) never *)
(* runs before initializeReplicad has installed the kernel with setOC,     *)
(* whenever the regenerate button is clicked.                              *)
(***************************************************************************)
C2_KernelInstalledBeforeUse == app = "demo" /\ kernelLog # <<>> => ocSet

(***************************************************************************)
(* C3: slider input is debounced.  Right after a handled geometry-slider   *)
(* input the preview update has run and the only pending timer is the one  *)
(* just set, a full 300 ms away (the earlier one is cancelled); at most    *)
(* one high-quality timer is pending at any time; less than 300 ms after   *)
(* the latest input no high-quality update has run since it, and more than *)
(* 300 ms after it exactly one has, with no timer left.                    *)
(***************************************************************************)
C3_Debounce ==
    /\ Cardinality(timers) <= 1
    /\ hqSinceInput <= 1
    /\ sinceInput = 0 =>
          /\ lastRun.kind = "preview"
          /\ timers = {[id |-> qualityUpdateTimeout, remaining |-> QualityDelayTicks]}
    /\ (sinceInput # Never /\ sinceInput < QualityDelayTicks) =>
          /\ hqSinceInput = 0
          /\ Cardinality(timers) = 1
    /\ sinceInput > QualityDelayTicks =>
          /\ hqSinceInput = 1
          /\ timers = {}

(* Two inputs less than 300 ms apart, then quiet: the first timer was
   cancelled and one high-quality update has run. *)
C3_Witness ==
    /\ nextTimerId = 3
    /\ hqRuns = 1
    /\ hqSinceInput = 1
    /\ sinceInput > QualityDelayTicks
    /\ lastRun.kind = "highQuality"

(***************************************************************************)
(* C4: every error raised while building or updating geometry or while     *)
(* initializing the kernel is caught and shown in a browser alert, on      *)
(* every path (createAndDisplayRing / createAndDisplayJewelry,             *)
(* rebuildMoonMesh, initializeReplicad).                                   *)
(***************************************************************************)
C4_ErrorsAlerted == lastRun.error # "none" => lastRun.alerted
(***************************************************************************)
(* C5: createRingWithSun issues its kernel operations in one fixed order   *)
(* for every parameter value: the main ring cut, the hollow sun cut, the   *)
(* sun's translation, the punch cut, the fuse, and only then the optional  *)
(* fillet.  Each of these steps is issued once at most and only after the  *)
(* step before it; a build that succeeds has fused.                        *)
(***************************************************************************)
C5_FixedOrder ==
    lastRun.kind = "createAndDisplayRing" =>
        LET steps == <<Op("cut", "mainRing"), Op("cut", "sun"), Op("translate", "sun"),
                       Op("cut", "sunPunch"), Op("fuse", "sun")>>
            At(op) == {i \in 1..Len(kernelLog) : kernelLog[i] = op}
        IN  /\ \A j \in 1..Len(steps) : Cardinality(At(steps[j])) <= 1
            /\ \A j \in 2..Len(steps) :
                  \A i \in At(steps[j]) : \E h \in At(steps[j - 1]) : h < i
            /\ \A i \in 1..Len(kernelLog) :
                  kernelLog[i].op = "fillet" => \E h \in At(Op("fuse", "sun")) : h < i
            /\ lastRun.error = "none" => At(Op("fuse", "sun")) # {}

(* A slider input has rebuilt the ring with changed dimensions, fillet
   included. *)
C5_Witness ==
    /\ lastRun.kind = "createAndDisplayRing"
    /\ lastRun.error = "none"
    /\ events > 0
    /\ dims.SUN_DIAMETER # SunDefaults.SUN_DIAMETER
    /\ \E i \in 1..Len(kernelLog) : kernelLog[i] = Op("fillet", "full")
(***************************************************************************)
(* C6: savePreset with a non-blank name stores under the trimmed name a    *)
(* record holding the current value of every dimension variable (moon      *)
(* height too in sun-ring2), replacing a preset of that name, and leaves   *)
(* every other stored preset unchanged.                                    *)
(***************************************************************************)
C6_SavePresetFrame ==
    [][(lastRun'.kind = "savePreset" /\ Trim(lastRun'.input) # <<>>) =>
        LET name == Trim(lastRun'.input)
            before == StoredPresets(localStorage)
            after == StoredPresets(localStorage')
            Others(o) == {k \in {o.keys[i] : i \in 1..Len(o.keys)} : k # name}
        IN  /\ Has(after, name)
            /\ Cardinality({i \in 1..Len(after.keys) : after.keys[i] = name}) = 1
            /\ Has(after, name) =>
                  LET stored == after.val[name]
                  IN  /\ stored.val["ringWidth"] = dims.RING_WIDTH
                      /\ stored.val["height"] = dims.HEIGHT
                      /\ stored.val["sunDiameter"] = dims.SUN_DIAMETER
                      /\ stored.val["sunWidth"] = dims.SUN_THICKNESS
                      /\ stored.val["moonDiameter"] = dims.MOON_DIAMETER
                      /\ stored.val["moonAngle"] = dims.MOON_ANGLE
                      /\ stored.val["filletRadius"] = dims.FILLET_RADIUS
                      /\ app = "sun2" => stored.val["moonHeight"] = dims.MOON_HEIGHT
            /\ Others(after) = Others(before)
            /\ \A k \in Others(before) : after.val[k] = before.val[k]
      ]_vars
(***************************************************************************)
(* C7: every field of every stored preset is a positive number within the  *)
(* range of its slider (between the least and the greatest value the       *)
(* slider delivers), whatever slider inputs, animations and saves came     *)
(* before.                                                                 *)
(***************************************************************************)
C7_PresetsInRange ==
    LET presets == StoredPresets(localStorage)
        InRange(v, values) ==
            /\ v > 0
            /\ \E lo \in values : lo <= v
            /\ \E hi \in values : v <= hi
    IN  \A i \in 1..Len(presets.keys) : \A s \in Sliders(app) :
            InRange(presets.val[presets.keys[i]].val[PresetField(s.variable)], s.values)
(***************************************************************************)
(* C8: after loadPreset of an existing preset with the kernel initialized  *)
(* (and no build error), the ring+sun mesh and the moon mesh shown in the  *)
(* scene are built from the loaded values: the moon from the loaded moon   *)
(* diameter, height / moon height and fillet radius.                       *)
(***************************************************************************)
C8_LoadRebuildsBoth ==
    (/\ lastEvent.action = "LoadPreset"
     /\ lastEvent.input # <<>>
     /\ isInitialized
     /\ lastRun.error = "none") =>
        LET Filleted(r2) == IF dims.FILLET_RADIUS > 1
                            THEN r2 \in {2 * dims.FILLET_RADIUS, dims.FILLET_RADIUS, 0}
                            ELSE r2 = 0
        IN  /\ ringMesh \in scene
            /\ ringMesh.RING_WIDTH = dims.RING_WIDTH
            /\ ringMesh.HEIGHT = dims.HEIGHT
            /\ ringMesh.SUN_DIAMETER = dims.SUN_DIAMETER
            /\ ringMesh.SUN_THICKNESS = dims.SUN_THICKNESS
            /\ Filleted(ringMesh.r2)
            /\ moonMesh \in scene
            /\ moonMesh.MOON_DIAMETER = dims.MOON_DIAMETER
            /\ moonMesh.height = MoonHeightOf(app, dims)
            /\ Filleted(moonMesh.r2)
(***************************************************************************)
(* C9: in sun-ring a height or fillet-radius slider input rebuilds         *)
(* everything: when the handler has ended without error, the ring+sun mesh *)
(* and the moon mesh are both built from the new HEIGHT / FILLET_RADIUS;   *)
(* in sun-ring2 the moon is built from the new FILLET_RADIUS after a       *)
(* fillet-radius input.                                                    *)
(***************************************************************************)
C9_BothRebuilt ==
    (/\ lastEvent.action = "SunSliderInput"
     /\ isInitialized
     /\ lastRun.error = "none") =>
        LET Filleted(r2) == IF dims.FILLET_RADIUS > 1
                            THEN r2 \in {2 * dims.FILLET_RADIUS, dims.FILLET_RADIUS, 0}
                            ELSE r2 = 0
        IN  /\ (app = "sun" /\ lastEvent.input = "HEIGHT") =>
                  /\ ringMesh.HEIGHT = dims.HEIGHT
                  /\ moonMesh.height = dims.HEIGHT
            /\ lastEvent.input = "FILLET_RADIUS" =>
                  /\ Filleted(ringMesh.r2)
                  /\ Filleted(moonMesh.r2)
(***************************************************************************)
(* C10: preset round trip: loadPreset(name) after savePreset(name)         *)
(* restores every dimension variable to exactly the value it had at the    *)
(* save, for every value a slider can produce, 0 included.                 *)
(***************************************************************************)
C10_RoundTrip ==
    (lastEvent.action = "LoadPreset" /\ lastEvent.input # <<>>) =>
        dims = savedDims[lastEvent.input]
(***************************************************************************)
(* C11: createPreviewRing and createHighQualityRing raise the 'Inner       *)
(* diameter must be at least 1mm smaller than outer diameter' error        *)
(* exactly for the parameter sets whose inner diameter is not at least     *)
(* 1 mm smaller than the outer one, and accept the others                  *)
(* (innerDiameter <= outerDiameter - 1).                                   *)
(***************************************************************************)
C11_InnerValidation ==
    lastRun.kind \in {"preview", "highQuality"} =>
        (lastRun.error = "innerTooLarge"
            <=> ~(sliders.innerDiameter <= sliders.outerDiameter - 100))
(***************************************************************************)
(* C12: whenever the preview update for the current slider values          *)
(* succeeded, the ring returns to the high-quality display once the 300 ms *)
(* timer has fired: solid gold material, helper mesh hidden, isPreviewMode *)
(* false.                                                                  *)
(***************************************************************************)
C12_ReturnsToHighQuality ==
    [][(/\ lastEvent'.action = "RingQualityTimer"
        /\ isInitialized
        /\ lastRun.kind = "preview"
        /\ lastRun.error = "none")
       => (/\ ringMesh'.material = "gold"
           /\ ~helperMesh'.visible
           /\ ~isPreviewMode')]_vars
(***************************************************************************)
(* C13: when updateRing fails (validation error, kernel error or meshing   *)
(* error) the displayed ring is unchanged: the ring mesh's geometry and    *)
(* material, the helper mesh's geometry and visibility, and isPreviewMode  *)
(* keep the values they had before the call.                               *)
(***************************************************************************)
C13_FailedUpdateKeepsDisplay ==
    [][(/\ lastEvent'.action \in {"RingKernelLoaded", "RingSliderInput", "RingQualityTimer"}
        /\ lastRun'.kind \in {"preview", "highQuality"}
        /\ lastRun'.error # "none")
       => (/\ ringMesh' = ringMesh
           /\ helperMesh' = helperMesh
           /\ isPreviewMode' = isPreviewMode)]_vars

(* A high-quality update whose meshing threw while the preview wireframe
   was displayed. *)
C13_Witness ==
    /\ lastRun.kind = "highQuality"
    /\ lastRun.error = "kernel"
    /\ kernelLog # <<>>
    /\ kernelLog[Len(kernelLog)] = "mesh"
    /\ isPreviewMode
    /\ ringMesh # NULL
    /\ ringMesh.material = "wireframe"
    /\ helperMesh.visible
(***************************************************************************)
(* C14: in sun-ring and sun-ring2 a failed geometry rebuild leaves the     *)
(* previously displayed mesh in the scene: after a failed                  *)
(* createAndDisplayRing / createAndDisplayJewelry the old ring mesh is     *)
(* still shown, and after a failed rebuildMoonMesh the old moon mesh is    *)
(* still shown and still referenced by moonMesh.                           *)
(***************************************************************************)
C14_FailedRebuildKeepsMesh ==
    [][/\ (/\ lastEvent'.action \in {"SunSliderInput", "LoadPreset"}
           /\ lastRun'.kind = "createAndDisplayRing"
           /\ lastRun'.error # "none"
           /\ ringMesh # NULL)
          => (ringMesh' = ringMesh /\ ringMesh \in scene')
       /\ (/\ lastEvent'.action \in {"SunSliderInput", "LoadPreset"}
           /\ lastRun'.kind = "rebuildMoonMesh"
           /\ lastRun'.error # "none"
           /\ moonMesh # NULL)
          => (moonMesh' = moonMesh /\ moonMesh \in scene')]_vars
(***************************************************************************)
(* C15: in sun-ring and sun-ring2 a fillet failure never fails a build.    *)
(* When FILLET_RADIUS > 0.01 the shape is filleted with FILLET_RADIUS, if  *)
(* that throws with FILLET_RADIUS / 2, and if that throws too the          *)
(* unfilleted shape is returned; when FILLET_RADIUS <= 0.01 no fillet is   *)
(* attempted; at most two attempts are made per shape, for the ring+sun    *)
(* and for the moon.  (r2 is the radius applied, doubled.)                 *)
(***************************************************************************)
C15_FilletNeverFails ==
    lastRun.kind \in {"createAndDisplayRing", "rebuildMoonMesh"} =>
        LET F == dims.FILLET_RADIUS
            n == Len(kernelLog)
            meshAt == {i \in 1..n : kernelLog[i] = Op("mesh", "ring")}
            m == IF meshAt = {} THEN n + 1 ELSE CHOOSE i \in meshAt : TRUE
            ringPart == IF lastRun.kind = "rebuildMoonMesh" THEN <<>>
                        ELSE SubSeq(kernelLog, 1, m - 1)
            moonPart == IF lastRun.kind = "rebuildMoonMesh" THEN kernelLog
                        ELSE SubSeq(kernelLog, m + 1, n)
            Fillets(s) == SelectSeq(s, LAMBDA o : o.op = "fillet")
            full == Op("fillet", "full")
            half == Op("fillet", "half")
            Applied(s, r2) ==
                /\ Fillets(s) = <<full>> => r2 = 2 * F
                /\ Fillets(s) = <<full, half>> => r2 \in {F, 0}
                /\ Fillets(s) = <<>> => r2 = 0
        IN  /\ lastRun.error # "none" => (n > 0 /\ kernelLog[n].op # "fillet")
            /\ F <= 1 => Fillets(kernelLog) = <<>>
            /\ Fillets(ringPart) \in {<<>>, <<full>>, <<full, half>>}
            /\ Fillets(moonPart) \in {<<>>, <<full>>, <<full, half>>}
            /\ (F > 1 /\ meshAt # {}) => Fillets(ringPart) # <<>>
            /\ (F > 1 /\ moonPart # <<>> /\ lastRun.error = "none")
                  => Fillets(moonPart) # <<>>
            /\ (lastRun.error = "none" /\ meshAt # {}) => Applied(ringPart, ringMesh.r2)
            /\ (lastRun.error = "none" /\ moonPart # <<>>) => Applied(moonPart, moonMesh.r2)

(* A build in which both fillet attempts threw for the ring+sun and for the
   moon, and both shapes are displayed unfilleted. *)
C15_Witness ==
    /\ lastRun.kind = "createAndDisplayRing"
    /\ lastRun.error = "none"
    /\ dims.FILLET_RADIUS > 1
    /\ Len(SelectSeq(kernelLog, LAMBDA o : o = Op("fillet", "half"))) = 2
    /\ ringMesh # NULL /\ ringMesh.r2 = 0
    /\ moonMesh # NULL /\ moonMesh.r2 = 0
(***************************************************************************)
(* C16: in the ring configurators createHighQualityRing attempts a fillet  *)
(* only when filletRadius > 0.1; if the fillet throws it tries a chamfer   *)
(* with the same radius, and if the chamfer throws as well it returns the  *)
(* plain ring without raising an error; createPreviewRing never fillets or *)
(* chamfers.                                                               *)
(***************************************************************************)
C16_FilletThenChamfer ==
    LET n == Len(kernelLog)
        Calls(op) == {i \in 1..n : kernelLog[i] = op}
        built == Calls("cut") # {} /\ ~(lastRun.error = "kernel" /\ kernelLog[n] = "cut")
    IN  /\ lastRun.kind = "preview" => (Calls("fillet") = {} /\ Calls("chamfer") = {})
        /\ lastRun.kind = "highQuality" =>
              /\ Calls("fillet") # {} => sliders.filletRadius > 10
              /\ (built /\ sliders.filletRadius > 10) => Calls("fillet") # {}
              /\ Cardinality(Calls("fillet")) <= 1
              /\ Cardinality(Calls("chamfer")) <= 1
              /\ \A i \in Calls("chamfer") : i > 1 /\ kernelLog[i - 1] = "fillet"
              /\ lastRun.error # "none" =>
                    (n = 0 \/ kernelLog[n] \notin {"fillet", "chamfer"})
              /\ lastRun.error = "none" =>
                    /\ ringMesh.geometry.edges \in {"fillet", "chamfer", "plain"}
                    /\ ringMesh.geometry.edges = "fillet" <=>
                          (Calls("fillet") # {} /\ Calls("chamfer") = {})
                    /\ ringMesh.geometry.edges = "chamfer" => Calls("chamfer") # {}

(* A high-quality build whose fillet and chamfer both threw and that
   displays the plain ring. *)
C16_Witness ==
    /\ lastRun.kind = "highQuality"
    /\ lastRun.error = "none"
    /\ sliders.filletRadius > 10
    /\ kernelLog = <<"makeCylinder", "makeCylinder", "cut", "fillet", "chamfer", "mesh">>
    /\ ringMesh.geometry.edges = "plain"
    /\ ~isPreviewMode
(***************************************************************************)
(* C17: after every successful updateRing the display mode is consistent.  *)
(* In preview mode the ring uses the wireframe material, casts and         *)
(* receives no shadows, the helper mesh is visible and isPreviewMode is    *)
(* true; in high-quality mode the ring uses the gold material, casts and   *)
(* receives shadows, the helper mesh is hidden and isPreviewMode is false; *)
(* the helper mesh is visible exactly when the ring is in preview mode.    *)
(***************************************************************************)
C17_DisplayModeConsistent ==
    /\ (lastRun.kind \in {"preview", "highQuality"} /\ lastRun.error = "none") =>
          /\ ringMesh # NULL /\ helperMesh # NULL
          /\ isPreviewMode = (lastRun.kind = "preview")
          /\ ringMesh.geometry.preview = isPreviewMode
    /\ ringMesh # NULL =>
          /\ helperMesh # NULL
          /\ helperMesh.visible = isPreviewMode
          /\ helperMesh.geometry = ringMesh.geometry
          /\ ringMesh.material = (IF isPreviewMode THEN "wireframe" ELSE "gold")
          /\ ringMesh.castShadow = ~isPreviewMode
          /\ ringMesh.receiveShadow = ~isPreviewMode

(* A preview that replaced a high-quality display, and the high-quality
   update that followed it. *)
C17_Witness ==
    /\ hqRuns >= 1
    /\ lastRun.kind = "highQuality"
    /\ lastRun.error = "none"
    /\ lastEvent.action = "RingQualityTimer"
    /\ ringMesh # NULL
    /\ ringMesh.material = "gold"
    /\ ~helperMesh.visible
(***************************************************************************)
(* C18: the loading indicator is shown only for high-quality work and is   *)
(* always hidden again: a preview updateRing never shows it; a             *)
(* high-quality updateRing shows it and hides it when the update ends,     *)
(* whether it succeeded or failed; createAndDisplayRing /                  *)
(* createAndDisplayJewelry hide it on both success and failure.            *)
(***************************************************************************)
C18_LoadingHiddenAgain ==
    /\ lastRun.kind = "preview" => (~lastRun.shownLoading /\ loadingHidden)
    /\ lastRun.kind = "highQuality" => (lastRun.shownLoading /\ loadingHidden)
    /\ lastRun.kind = "createAndDisplayRing" => loadingHidden
    /\ lastRun.shownLoading => lastRun.kind \in {"highQuality", "createAndDisplayRing"}

(* A high-quality update that showed the indicator, failed, and hid it. *)
C18_Witness ==
    /\ lastRun.kind = "highQuality"
    /\ lastRun.shownLoading
    /\ lastRun.error # "none"
    /\ lastRun.alerted
    /\ loadingHidden
(***************************************************************************)
(* C19: in the subdivision demo, after every click on the regenerate       *)
(* button the loading overlay is eventually hidden again, including when   *)
(* geometry generation throws.                                             *)
(***************************************************************************)
C19_LoadingEventuallyHidden ==
    (lastEvent.action = "RegenerateClick") ~> loadingHidden
(***************************************************************************)
(* C20: in the subdivision demo, after every displayMeshes call the model  *)
(* meshes in the scene are exactly the meshes in currentMeshes (all        *)
(* previous ones removed): at most one mesh for the original / loop /      *)
(* catmull methods and at most three for compare; and after any            *)
(* interleaving of wireframe toggles, display-method changes and           *)
(* regenerations every mesh in currentMeshes has material.wireframe equal  *)
(* to wireframeEnabled.                                                    *)
(***************************************************************************)
C20_SceneIsCurrentMeshes ==
    /\ scene = Range(currentMeshes)
    /\ Cardinality(scene) = Len(currentMeshes)
    /\ Len(currentMeshes) <= (IF demoParams.displayMethod = "compare" THEN 3 ELSE 1)
    /\ \A i \in 1..Len(currentMeshes) :
          currentMeshes[i].material.wireframe = wireframeEnabled

(* The three meshes of the comparison, regenerated after the wireframe was
   switched on. *)
C20_Witness ==
    /\ lastRun.kind = "regenerate"
    /\ lastRun.error = "none"
    /\ demoParams.displayMethod = "compare"
    /\ Len(currentMeshes) = 3
    /\ wireframeEnabled
    /\ Cardinality(scene) = 3

====
